---- MODULE Spec2Model ----
(***************************************************************************)
(* Model of the env_vars_struct procedural macro (src/src/lib.rs).         *)
(*                                                                         *)
(* A Rust String is a sequence of one-character strings, so that split,    *)
(* to_snake_case and to_pascal_case are computed character by character.   *)
(* Option<T> is a sequence of length 0 (None) or 1 (Some(x)).              *)
(* The tree of Node values (nested HashMap<String, Node>) is a function    *)
(* from the path of raw map keys leading to a node (<<>> is the root) to   *)
(* that node's leaf_var; the children of a node are the paths one key      *)
(* longer.  The iteration order of every HashMap is chosen                 *)
(* nondeterministically each time the macro is expanded.                   *)
(***************************************************************************)
EXTENDS Naturals, Sequences, FiniteSets, TLC

VARIABLES input, i, root, pc, expanded, prev_expanded, env, result

vars == <<input, i, root, pc, expanded, prev_expanded, env, result>>

\* Largest number of string literals in a generated macro input.
MaxPaths == 3

------------------------------------------------------------------------------
\* Option<T>

None == <<>>

Some(x) == <<x>>

unwrap(o) == o[1]

------------------------------------------------------------------------------
\* Characters and strings

UpperChars ==
    <<"A","B","C","D","E","F","G","H","I","J","K","L","M",
      "N","O","P","Q","R","S","T","U","V","W","X","Y","Z">>

LowerChars ==
    <<"a","b","c","d","e","f","g","h","i","j","k","l","m",
      "n","o","p","q","r","s","t","u","v","w","x","y","z">>

IndexIn(seq, c) == CHOOSE k \in 1..Len(seq) : seq[k] = c

IsUpper(c) == \E k \in 1..Len(UpperChars) : UpperChars[k] = c

IsLower(c) == \E k \in 1..Len(LowerChars) : LowerChars[k] = c

char_to_lowercase(c) == IF IsUpper(c) THEN LowerChars[IndexIn(UpperChars, c)] ELSE c

char_to_uppercase(c) == IF IsLower(c) THEN UpperChars[IndexIn(LowerChars, c)] ELSE c

to_lowercase(s) == [k \in 1..Len(s) |-> char_to_lowercase(s[k])]

replace(s, from, to) == [k \in 1..Len(s) |-> IF s[k] = from THEN to ELSE s[k]]

RECURSIVE split(_, _)
\* str::split(sep): the pieces between separators; "" splits into [""].
split(s, sep) ==
    IF \E k \in 1..Len(s) : s[k] = sep
    THEN LET k == CHOOSE k \in 1..Len(s) :
                      s[k] = sep /\ \A j \in 1..(k - 1) : s[j] # sep
         IN  <<SubSeq(s, 1, k - 1)>> \o split(SubSeq(s, k + 1, Len(s)), sep)
    ELSE <<s>>

RECURSIVE concat(_)
concat(words) == IF words = <<>> THEN <<>> ELSE Head(words) \o concat(Tail(words))

\* s.to_lowercase().replace('-', "_")
to_snake_case(s) == replace(to_lowercase(s), "-", "_")

\* One word of to_pascal_case: first char upper-cased, the rest lower-cased.
capitalize(word) ==
    IF word = <<>> THEN <<>>
    ELSE <<char_to_uppercase(Head(word))>> \o to_lowercase(Tail(word))

\* s.split('_').map(capitalize).collect()
to_pascal_case(s) ==
    LET words == split(s, "_")
    IN  concat([k \in 1..Len(words) |-> capitalize(words[k])])

\* syn::Ident::new panics unless the string is a valid identifier
\* (the alphabet of the model has letters, '_', '-', '.' and no digits).
IsIdentChar(c) == IsUpper(c) \/ IsLower(c) \/ c = "_"

IsIdent(s) == s # <<>> /\ \A k \in 1..Len(s) : IsIdentChar(s[k])

ROOT_STRUCT_NAME == <<"V","a","r","s">>

------------------------------------------------------------------------------
\* Node and insert_path

NodeDefault == (<<>> :> None)

child_keys(t, node) ==
    {n[Len(n)] : n \in {m \in DOMAIN t : Len(m) = Len(node) + 1
                                         /\ SubSeq(m, 1, Len(node)) = node}}

children_is_empty(t, node) == child_keys(t, node) = {}

\* HashMap::insert of a fresh Node: an existing child and its subtree are lost.
entry_insert_fresh(t, child) ==
    LET keep == {n \in DOMAIN t :
                    ~(Len(n) >= Len(child) /\ SubSeq(n, 1, Len(child)) = child)}
    IN  [n \in keep |-> t[n]] @@ (child :> None)

\* node.children.entry(key).or_default()
entry_or_default(t, child) ==
    IF child \in DOMAIN t THEN t ELSE t @@ (child :> None)

\* Stores the last segment instead of the full variable name.
set_leaf_var_segment(t, child, full_var) ==
    [t EXCEPT ![child] = Some(child[Len(child)])]

\* .leaf_var = Some(full_var.to_string())
set_leaf_var(t, child, full_var) == [t EXCEPT ![child] = Some(full_var)]

RECURSIVE insert_path(_, _, _, _)
insert_path(t, node, parts, full_var) ==
    IF parts = <<>> THEN t
    ELSE LET child == Append(node, parts[1])
             t1 == entry_or_default(t, child)
         IN  IF Len(parts) = 1
             THEN set_leaf_var(t1, child, full_var)
             ELSE insert_path(t1, child, Tail(parts), full_var)

\* One iteration of the loop of env_vars_struct.
insert_var(t, var_name) == insert_path(t, <<>>, split(var_name, "."), var_name)

RECURSIVE build_tree(_)
\* The whole loop of env_vars_struct over a list of literals.
build_tree(names) ==
    IF names = <<>> THEN NodeDefault
    ELSE insert_var(build_tree(SubSeq(names, 1, Len(names) - 1)), names[Len(names)])

------------------------------------------------------------------------------
\* HashMap iteration order

Perms(S) ==
    {s \in [1..Cardinality(S) -> S] :
        \A a, b \in 1..Cardinality(S) : a # b => s[a] # s[b]}

RECURSIVE IterOrdersOver(_, _)
IterOrdersOver(t, S) ==
    IF S = {} THEN {<<>>}
    ELSE LET n == CHOOSE n \in S : TRUE
         IN  {f @@ (n :> p) : f \in IterOrdersOver(t, S \ {n}),
                              p \in Perms(child_keys(t, n))}

\* Every order in which the maps of the tree can be iterated.
IterOrders(t) == IterOrdersOver(t, DOMAIN t)

------------------------------------------------------------------------------
\* The emitted declarations

\* Text of the type of a leaf field.
String == <<"S","t","r","i","n","g">>

\* leaf_var.is_some() alone: a bound node with children is taken for a leaf.
is_leaf_bound_only(t, node) == t[node] # None

\* child_node.leaf_var.is_some() && child_node.children.is_empty()
is_leaf(t, node) == t[node] # None /\ children_is_empty(t, node)

\* leaf_var.is_none() alone: a bound node with children gets no struct.
is_intermediate_unbound_only(t, node) == t[node] = None

\* child_node.leaf_var.is_none() || !child_node.children.is_empty()
is_intermediate(t, node) == t[node] = None \/ ~children_is_empty(t, node)

\* format!("{}{}", struct_name, to_pascal_case(field_name))
child_struct_name(struct_name, field_name) == struct_name \o to_pascal_case(field_name)

generate_struct_fields(t, ord, node, parent_struct) ==
    [k \in 1..Len(ord[node]) |->
        LET field_name == ord[node][k]
            child_node == Append(node, field_name)
        IN  IF is_leaf(t, child_node)
            THEN [ident |-> to_snake_case(field_name), kind |-> "leaf",
                  ty |-> String]
            ELSE [ident |-> to_snake_case(field_name), kind |-> "nested",
                  ty |-> child_struct_name(parent_struct, field_name)]]

generate_field_inits(t, ord, node, parent_struct) ==
    [k \in 1..Len(ord[node]) |->
        LET field_name == ord[node][k]
            child_node == Append(node, field_name)
        IN  IF is_leaf(t, child_node)
            THEN [ident |-> to_snake_case(field_name), kind |-> "env_var",
                  arg |-> unwrap(t[child_node])]
            ELSE [ident |-> to_snake_case(field_name), kind |-> "new",
                  arg |-> child_struct_name(parent_struct, field_name)]]

\* pub struct #ident { #fields }  impl #ident { fn new() -> Self { Self { #field_inits } } }
\* `node` is not part of the tokens: it records the node they were generated for.
struct_decl(t, ord, node, struct_name) ==
    [node   |-> node,
     name   |-> struct_name,
     fields |-> generate_struct_fields(t, ord, node, struct_name),
     inits  |-> generate_field_inits(t, ord, node, struct_name)]

RECURSIVE generate_structs(_, _, _, _)
RECURSIVE generate_structs_from(_, _, _, _, _)
generate_structs(t, ord, node, struct_name) ==
    generate_structs_from(t, ord, node, struct_name, 1)

\* The body of the loop of generate_structs, from the k-th child on.
generate_structs_from(t, ord, node, struct_name, k) ==
    IF k > Len(ord[node]) THEN <<>>
    ELSE LET field_name == ord[node][k]
             child_node == Append(node, field_name)
             child_name == child_struct_name(struct_name, field_name)
         IN  (IF is_intermediate(t, child_node)
              THEN generate_structs(t, ord, child_node, child_name)
                       \o <<struct_decl(t, ord, child_node, child_name)>>
              ELSE <<>>)
             \o generate_structs_from(t, ord, node, struct_name, k + 1)

generate_root_struct(t, ord) == struct_decl(t, ord, <<>>, ROOT_STRUCT_NAME)

\* quote! { #structs #root_struct }
expand(t, ord) ==
    generate_structs(t, ord, <<>>, ROOT_STRUCT_NAME) \o <<generate_root_struct(t, ord)>>

RECURSIVE struct_name_of(_)
\* The struct name the recursion of generate_structs passes down to a node.
struct_name_of(node) ==
    IF node = <<>> THEN ROOT_STRUCT_NAME
    ELSE child_struct_name(struct_name_of(SubSeq(node, 1, Len(node) - 1)),
                           node[Len(node)])

\* syn::Ident::new panics on a string that is no identifier: the field
\* identifier of every child, the struct identifier of every intermediate child.
ident_new_panics(t) ==
    \E n \in DOMAIN t :
        /\ n # <<>>
        /\ \/ ~IsIdent(to_snake_case(n[Len(n)]))
           \/ is_intermediate(t, n) /\ ~IsIdent(struct_name_of(n))

\* The host compiler rejects two items of one name and two fields of one name.
compiles(decls) ==
    /\ \A a, b \in 1..Len(decls) : a # b => decls[a].name # decls[b].name
    /\ \A d \in 1..Len(decls) :
          \A a, b \in 1..Len(decls[d].fields) :
              a # b => decls[d].fields[a].ident # decls[d].fields[b].ident

------------------------------------------------------------------------------
\* The generated constructor

\* std::env::var
env_var(e, key) ==
    IF e.echo THEN Some(key)
    ELSE IF key \in DOMAIN e.vars THEN Some(e.vars[key]) ELSE None

\* unwrap_or_default: an absent variable becomes the empty string.
env_var_or_default(e, var_name) ==
    LET v == env_var(e, var_name)
    IN  [panic |-> None, obj |-> (<<>> :> (IF v = None THEN <<>> ELSE unwrap(v)))]

\* std::env::var(#var_name).unwrap_or_else(|_| panic!("... {} not found", #var_name))
env_var_or_panic(e, var_name) ==
    LET v == env_var(e, var_name)
    IN  IF v = None THEN [panic |-> Some(var_name), obj |-> <<>>]
        ELSE [panic |-> None, obj |-> (<<>> :> unwrap(v))]

decl_named(decls, name) == decls[CHOOSE d \in 1..Len(decls) : decls[d].name = name]

\* The value as the field `ident` of the enclosing struct.
as_field(ident, obj) ==
    [p \in {<<ident>> \o q : q \in DOMAIN obj} |-> obj[Tail(p)]]

RECURSIVE new(_, _, _)
RECURSIVE eval_inits(_, _, _, _)
\* #ident::new(): Self { #field_inits }, the fields evaluated in the order written.
new(decls, name, e) == eval_inits(decls, decl_named(decls, name).inits, e, 1)

eval_inits(decls, inits, e, k) ==
    IF k > Len(inits) THEN [panic |-> None, obj |-> <<>>]
    ELSE LET init == inits[k]
             r == IF init.kind = "env_var"
                  THEN env_var_or_panic(e, init.arg)
                  ELSE new(decls, init.arg, e)
         IN  IF r.panic # None THEN [panic |-> r.panic, obj |-> <<>>]
             ELSE LET rest == eval_inits(decls, inits, e, k + 1)
                  IN  IF rest.panic # None THEN rest
                      ELSE [panic |-> None,
                            obj |-> as_field(init.ident, r.obj) @@ rest.obj]

------------------------------------------------------------------------------
\* Inputs

P_A == <<"A">>
P_A_B == <<"A",".","B">>
P_A_Y == <<"A",".","Y">>
P_B_X == <<"B",".","X">>
P_AuB_Y == <<"A","_","B",".","Y">>
P_A_B_X == <<"A",".","B",".","X">>
P_Empty == <<>>
P_HAT == <<"H","A","T">>
P_CACHE_REDIS_URL == <<"C","A","C","H","E",".","R","E","D","I","S","-","U","R","L">>

PathPool ==
    {P_A, P_A_B, P_A_Y, P_B_X, P_AuB_Y, P_A_B_X, P_Empty, P_HAT,
     P_CACHE_REDIS_URL}

\* The invocation of the crate documentation.
DocInput ==
    << <<"D","A","T","A","B","A","S","E",".","H","O","S","T">>,
       <<"D","A","T","A","B","A","S","E",".","P","O","R","T">>,
       <<"A","P","I",".","K","E","Y">>,
       <<"A","P","I",".","S","E","C","R","E","T">>,
       <<"C","A","C","H","E",".","R","E","D","I","S",".","U","R","L">>,
       P_HAT >>

\* The variables the crate documentation sets before Vars::new().
DocEnv ==
    [echo |-> FALSE,
     vars |-> ( <<"D","A","T","A","B","A","S","E","_","H","O","S","T">> :> <<"h","o","s","t">> )
           @@ ( <<"D","A","T","A","B","A","S","E","_","P","O","R","T">> :> <<"5","4","3","2">> )
           @@ ( <<"A","P","I",".","K","E","Y">> :> <<"m","a","g","i","c"," ","k","e","y">> )
           @@ ( <<"A","P","I",".","S","E","C","R","E","T">> :> <<"m","a","g","i","c"," ","s","e","c","r","e","t">> )
           @@ ( <<"C","A","C","H","E",".","R","E","D","I","S",".","U","R","L">> :> <<"r","e","d","i","s",":","/","/","s","o","m","e","p","l","a","c","e">> )
           @@ ( P_HAT :> <<"f","e","d","o","r","a">> )]

InputLists ==
    UNION {[1..n -> PathPool] : n \in 0..MaxPaths} \cup {DocInput}

Range(seq) == {seq[k] : k \in 1..Len(seq)}

\* A lookup that returns the key itself, whatever the key.
EchoEnv == [echo |-> TRUE, vars |-> <<>>]

NoEnv == [echo |-> FALSE, vars |-> <<>>]

\* The environments at construction time: any subset of the named variables
\* set (each to its own name), every key echoed, or the documented one.
Envs(names) ==
    {[echo |-> FALSE, vars |-> [key \in S |-> key]] :
        S \in SUBSET (Range(names) \ {<<>>})}
    \cup {EchoEnv, DocEnv}

------------------------------------------------------------------------------
\* The state machine

Init ==
    /\ input \in InputLists
    /\ i = 0
    /\ root = NodeDefault
    /\ pc = "insert"
    /\ expanded = None
    /\ prev_expanded = None
    /\ env = NoEnv
    /\ result = None

\* for var_name in &input.vars { insert_path(&mut root, &parts, var_name) }
InsertNext ==
    /\ pc = "insert"
    /\ i < Len(input)
    /\ root' = insert_var(root, input[i + 1])
    /\ i' = i + 1
    /\ UNCHANGED <<input, pc, expanded, prev_expanded, env, result>>

\* generate_structs, generate_root_struct and the host compiler's verdict.
Expand ==
    /\ pc = "insert"
    /\ i = Len(input)
    /\ \E ord \in IterOrders(root) :
          IF ident_new_panics(root)
          THEN /\ pc' = "macro_panicked"
               /\ expanded' = None
          ELSE /\ expanded' = Some(expand(root, ord))
               /\ pc' = IF compiles(expand(root, ord)) THEN "compiled"
                                                       ELSE "compile_error"
    /\ UNCHANGED <<input, i, root, prev_expanded, env, result>>

\* Vars::new() in some environment.
New ==
    /\ pc = "compiled"
    /\ \E e \in Envs(input) :
          LET r == new(unwrap(expanded), ROOT_STRUCT_NAME, e)
          IN  /\ env' = e
              /\ result' = Some(r)
              /\ pc' = IF r.panic = None THEN "returned" ELSE "panicked"
    /\ UNCHANGED <<input, i, root, expanded, prev_expanded>>

\* The same invocation expanded again (another build of the same source).
Rebuild ==
    /\ pc \in {"compiled", "compile_error"}
    /\ prev_expanded' = expanded
    /\ root' = NodeDefault
    /\ i' = 0
    /\ pc' = "insert"
    /\ expanded' = None
    /\ UNCHANGED <<input, env, result>>

\* One build of the invocation and the construction of the object.
Next == InsertNext \/ Expand \/ New

Spec == Init /\ [][Next]_vars

\* Repeated builds of the same invocation.
NextBuilds == InsertNext \/ Expand \/ Rebuild

SpecBuilds == Init /\ [][NextBuilds]_vars

------------------------------------------------------------------------------
\* Vocabulary of the properties

Last(seq) == seq[Len(seq)]

Parent(node) == SubSeq(node, 1, Len(node) - 1)

\* The node at which a dotted path ends.
NodeOf(path) == split(path, ".")

\* The field identifiers leading from the root object to a node.
FieldPath(node) == [k \in 1..Len(node) |-> to_snake_case(node[k])]

NonRootNodes == DOMAIN root \ {<<>>}

HasOutput == expanded # None

\* The expansion has just been produced.
Expanded == pc \in {"compiled", "compile_error"}

Decls == unwrap(expanded)

Constructed == pc \in {"returned", "panicked"}

Object == unwrap(result).obj

HasDecl(name) == \E d \in 1..Len(Decls) : Decls[d].name = name

\* The field that the struct of a node's parent declares for the node.
FieldOf(node) ==
    LET fields == decl_named(Decls, struct_name_of(Parent(node))).fields
    IN  fields[CHOOSE f \in 1..Len(fields) :
                   fields[f].ident = to_snake_case(Last(node))]

\* The variable names looked up by the initializers of the expansion.
EnvInits ==
    UNION {{Decls[d].inits[f].arg :
               f \in {g \in 1..Len(Decls[d].inits) :
                          Decls[d].inits[g].kind = "env_var"}} :
           d \in 1..Len(Decls)}

\* The lookup returns the key itself for every key.
ReturnsKeyItself == env.echo

------------------------------------------------------------------------------
\* C1 as stated: with a lookup that returns the key itself, the constructed
\* object holds every input path p in the field reached by the field
\* identifiers of p's segments.
C1_RoundTripEveryPath ==
    (pc = "returned" /\ ReturnsKeyItself) =>
        \A k \in 1..Len(input) :
            /\ FieldPath(NodeOf(input[k])) \in DOMAIN Object
            /\ Object[FieldPath(NodeOf(input[k]))] = input[k]

\* C1 amended: with a lookup that returns the key itself, the constructed
\* object holds every input path p whose node has no children (no path of the
\* list extends p by further segments) in the field reached by the field
\* identifiers of p's segments.
C1_RoundTripLeaves ==
    (pc = "returned" /\ ReturnsKeyItself) =>
        \A k \in 1..Len(input) :
            children_is_empty(root, NodeOf(input[k])) =>
                /\ FieldPath(NodeOf(input[k])) \in DOMAIN Object
                /\ Object[FieldPath(NodeOf(input[k]))] = input[k]

C1_Witness ==
    /\ pc = "returned"
    /\ ReturnsKeyItself
    /\ input = <<P_A_B, P_HAT, P_CACHE_REDIS_URL>>
    /\ Object[<<<<"a">>, <<"b">>>>] = P_A_B

\* C2: when the lookup of some leaf's key is absent, the constructor panics
\* naming the full dotted key of a leaf whose lookup is absent and returns no
\* object; an object that is returned holds, for every leaf, the value looked
\* up (never a default).
C2_MissingValueFatal ==
    Constructed =>
        LET leaves  == {n \in NonRootNodes : is_leaf(root, n)}
            missing == {unwrap(root[n]) : n \in
                           {m \in leaves : env_var(env, unwrap(root[m])) = None}}
            r       == unwrap(result)
        IN  /\ missing # {} =>
                  /\ pc = "panicked"
                  /\ r.panic # None
                  /\ unwrap(r.panic) \in missing
                  /\ r.obj = <<>>
            /\ pc = "returned" =>
                  /\ missing = {}
                  /\ \A n \in leaves :
                        /\ FieldPath(n) \in DOMAIN r.obj
                        /\ Some(r.obj[FieldPath(n)]) = env_var(env, unwrap(root[n]))

C2_Witness ==
    /\ pc = "panicked"
    /\ input = <<P_HAT>>
    /\ P_HAT \notin DOMAIN env.vars
    /\ unwrap(result).panic = Some(P_HAT)

\* C3: in an expansion the compiler accepts, a node with a leaf_var and at
\* least one child is a nested field of its parent's struct, a struct with the
\* children's fields is declared for it and no initializer looks up its
\* leaf_var; a field is a leaf String only if its node has a leaf_var and no
\* children.
C3_TieBreak ==
    pc = "compiled" =>
        /\ \A n \in NonRootNodes :
              (root[n] # None /\ ~children_is_empty(root, n)) =>
                  /\ FieldOf(n).kind = "nested"
                  /\ FieldOf(n).ty = struct_name_of(n)
                  /\ HasDecl(struct_name_of(n))
                  /\ LET fields == decl_named(Decls, struct_name_of(n)).fields
                     IN  {fields[f].ident : f \in 1..Len(fields)} =
                             {to_snake_case(key) : key \in child_keys(root, n)}
                  /\ unwrap(root[n]) \notin EnvInits
        /\ \A n \in NonRootNodes :
              FieldOf(n).kind = "leaf" =>
                  root[n] # None /\ children_is_empty(root, n)

C3_Witness ==
    /\ pc = "compiled"
    /\ input = <<P_A_B, P_A>>
    /\ root[<<P_A>>] = Some(P_A)
    /\ FieldOf(<<P_A>>).kind = "nested"
    /\ FieldOf(<<P_A, <<"B">>>>).kind = "leaf"

\* C4 as stated: two expansions of the same ordered input list give the same
\* declarations in the same order, with the same field and initializer order.
C4_DeterministicEmission ==
    (HasOutput /\ prev_expanded # None) => expanded = prev_expanded

\* C5 as stated: when the segments under every common parent have pairwise
\* distinct normalized forms, the names of the emitted structs are pairwise
\* distinct and none is the root name.
C5_TypeNamesUnique ==
    (/\ HasOutput
     /\ \A n \in DOMAIN root : \A a, b \in child_keys(root, n) :
            a # b => /\ to_snake_case(a) # to_snake_case(b)
                     /\ to_pascal_case(a) # to_pascal_case(b))
    => /\ \A a, b \in 1..(Len(Decls) - 1) :
              a # b => Decls[a].name # Decls[b].name
       /\ \A a \in 1..(Len(Decls) - 1) : Decls[a].name # ROOT_STRUCT_NAME

\* C6 as stated: the documented invocation, constructed in the documented
\* environment, returns an object that holds the documented values.
C6_DocExample ==
    (input = DocInput /\ env = DocEnv /\ Constructed) =>
        /\ pc = "returned"
        /\ Object[<<<<"d","a","t","a","b","a","s","e">>, <<"h","o","s","t">>>>] = <<"h","o","s","t">>
        /\ Object[<<<<"d","a","t","a","b","a","s","e">>, <<"p","o","r","t">>>>] = <<"5","4","3","2">>
        /\ Object[<<<<"a","p","i">>, <<"k","e","y">>>>] = <<"m","a","g","i","c"," ","k","e","y">>
        /\ Object[<<<<"a","p","i">>, <<"s","e","c","r","e","t">>>>] = <<"m","a","g","i","c"," ","s","e","c","r","e","t">>
        /\ Object[<<<<"c","a","c","h","e">>, <<"r","e","d","i","s">>, <<"u","r","l">>>>] = <<"r","e","d","i","s",":","/","/","s","o","m","e","p","l","a","c","e">>
        /\ Object[<<<<"h","a","t">>>>] = <<"f","e","d","o","r","a">>

\* C7 as stated: an empty string in the input is a no-op: the tree is the one
\* built from the other strings, and the input is not rejected because of it.
C7_EmptyPathIgnored ==
    LET others == SelectSeq(SubSeq(input, 1, i), LAMBDA p : p # <<>>)
    IN  /\ root = build_tree(others)
        /\ pc = "macro_panicked" => ident_new_panics(build_tree(others))

\* C8 as stated: "CACHE.REDIS-URL" is reached at cache.redis_url and the
\* type-name fragment of its segment "REDIS-URL" is "RedisUrl".
C8_Normalization ==
    \A k \in 1..i :
        input[k] = P_CACHE_REDIS_URL =>
            /\ FieldPath(NodeOf(input[k])) = <<<<"c","a","c","h","e">>, <<"r","e","d","i","s","_","u","r","l">>>>
            /\ to_pascal_case(Last(NodeOf(input[k]))) = <<"R","e","d","i","s","U","r","l">>

\* C9: the expansion holds exactly one struct for each non-root node that is
\* not a leaf, and the root struct; a node's struct has one field and one
\* initializer per child; a nested field's type and the constructor its
\* initializer calls are the declared struct of that child; a leaf's
\* initializer looks up the input string that ends at the leaf.
C9_SchemaComplete ==
    Expanded =>
        /\ Decls[Len(Decls)].node = <<>>
        /\ \A d \in 1..Len(Decls) :
              /\ Decls[d].node \in DOMAIN root
              /\ ~is_leaf(root, Decls[d].node)
              /\ \A c \in 1..Len(Decls) : Decls[c].node = Decls[d].node => c = d
        /\ \A n \in DOMAIN root :
              ~is_leaf(root, n) =>
                  \E d \in 1..Len(Decls) :
                      /\ Decls[d].node = n
                      /\ Decls[d].name = struct_name_of(n)
                      /\ Len(Decls[d].fields) = Cardinality(child_keys(root, n))
                      /\ Len(Decls[d].inits) = Cardinality(child_keys(root, n))
                      /\ \A key \in child_keys(root, n) :
                            \E f \in 1..Len(Decls[d].fields) :
                                LET child == Append(n, key)
                                    field == Decls[d].fields[f]
                                    init  == Decls[d].inits[f]
                                IN  /\ field.ident = to_snake_case(key)
                                    /\ init.ident = to_snake_case(key)
                                    /\ IF is_leaf(root, child)
                                       THEN /\ field.kind = "leaf"
                                            /\ init.kind = "env_var"
                                            /\ init.arg \in Range(input)
                                            /\ NodeOf(init.arg) = child
                                       ELSE /\ field.kind = "nested"
                                            /\ init.kind = "new"
                                            /\ \E c \in 1..(Len(Decls) - 1) :
                                                  /\ Decls[c].node = child
                                                  /\ Decls[c].name = field.ty
                                                  /\ Decls[c].name = init.arg

C9_Witness ==
    /\ pc = "compiled"
    /\ input = <<P_A_B_X, P_A_Y, P_HAT>>
    /\ Len(Decls) = 3

\* C10: once every path is inserted, the tree is the tree that any
\* permutation of the input list builds; the root never gets a leaf_var.
C10_InsertionOrderIndependent ==
    /\ root[<<>>] = None
    /\ (pc = "insert" /\ i = Len(input)) =>
          \A perm \in Perms(1..Len(input)) :
              build_tree([k \in 1..Len(input) |-> input[perm[k]]]) = root

C10_Witness ==
    /\ pc = "insert"
    /\ i = Len(input)
    /\ input = <<P_A_B, P_A, P_A_B>>
    /\ root[<<P_A>>] = Some(P_A)
    /\ <<P_A, <<"B">>>> \in DOMAIN root

====
